---- MODULE Spec2Model ----
(***************************************************************************)
(* Outbox: the message-lifecycle subsystem.                                *)
(*                                                                         *)
(* Processes that share the SQLite database:                               *)
(*   - request handlers of the web process (HTTP API and admin UI):        *)
(*     submit, retry, cancel.  Each handler runs its statements one        *)
(*     transaction at a time; a read (get_by_uuid) and the write that      *)
(*     follows it (update_status) are two separate steps;                  *)
(*   - the LocalBackend of the client library, whose retry and cancel run  *)
(*     the read and the write inside one BEGIN IMMEDIATE transaction;      *)
(*   - the single queue worker: poll, then per message pick-up, SMTP send, *)
(*     result write, then purge; the database errors of its status writes  *)
(*     and the shutdown signal.                                            *)
(* Beside the lifecycle, statement by statement: save_attachment and the   *)
(* blob directory, api_key_required and the api_key table, _audit_log and  *)
(* the audit_log table; the payload columns from POST to GET, and the      *)
(* LIMIT of the message list.                                              *)
(* Time is a clock of whole seconds; timestamps are clock readings.        *)
(***************************************************************************)
EXTENDS Integers, Sequences, FiniteSets, TLC

----------------------------------------------------------------------------
(* Bounds of the model *)

MaxMsgs == 1        \* message rows ever created
MaxReqs == 1        \* request handlers of the web process running at once
MaxAtt == 1         \* attachments carried by one submission
MaxTicks == 2       \* clock advances
MaxSends == 3       \* SMTP send attempts per message
MaxRows == 3        \* rows of the table get_pending_batch is applied to
MaxBatch == 2       \* largest batch_size get_pending_batch is applied with
MaxTime == 2        \* latest timestamp of that table
MaxPurgeRows == 2   \* rows of the table purge_old is applied to
MaxHandlers == 2    \* requests storing blobs / writing audit rows at once
MaxKeys == 2        \* API keys ever generated
MaxContents == 2    \* distinct attachment contents
MaxPuts == 2        \* attachments one submission stores
MaxStr == 2         \* characters of a from_address
MaxList == 2        \* recipients in a to, cc or bcc list
MaxStored == 201    \* rows a list query matches
MaxOffset == 1      \* largest offset parameter, in absolute value
MaxAudit == 3       \* audit rows written by concurrent requests / key administration

(* Program constants *)

QUEUE_RETRY_BASE_SECONDS == 120   \* config.py: queue.retry_base_seconds
QUEUE_RETRY_MAX_SECONDS == 3600   \* config.py: queue.retry_max_seconds
QUEUE_BATCH_SIZE == 10            \* config.py: queue.batch_size
CREATE_MAX_RETRIES == 5           \* Message.create(max_retries: int = 5)
LOCAL_MAX_RETRIES == 5            \* the literal 5 of LocalBackend's SQL
RETENTION_DAYS == 30              \* config.py: retention.days
LIST_LIMIT_DEFAULT == 50
LIST_LIMIT_CAP == 200
RetentionSeconds == RETENTION_DAYS * 24 * 60 * 60

\* queue.max_retries is configurable (default 5); the model runs under each
\* of these configured values.
MaxRetriesChoices == {2, 5}

\* One advance of the clock: long enough for every scheduled retry to fall due
\* and for a row written before it to fall behind the retention cutoff.
TickSteps == {RetentionSeconds + 1}

----------------------------------------------------------------------------
(* Values *)

NULL == <<>>                      \* SQL NULL / Python None
Some(v) == <<v>>                  \* a non-null column value
Val(o) == o[1]

Statuses == {"queued", "sending", "sent", "failed", "dead", "cancelled"}
MsgIds == 1..MaxMsgs
Reqs == 1..MaxReqs
AttKinds == {"ok", "bad_base64", "too_large"}
Handlers == 1..MaxHandlers
KeyIds == 1..MaxKeys
Contents == 1..MaxContents

Min(a, b) == IF a <= b THEN a ELSE b

RECURSIVE Pow2(_)
Pow2(n) == IF n <= 0 THEN 1 ELSE 2 * Pow2(n - 1)

VARIABLES
    max_retries,     \* app.config["QUEUE_MAX_RETRIES"]
    batch_size,      \* app.config["QUEUE_BATCH_SIZE"]
    clock,           \* datetime.now(UTC), in seconds
    ticks,           \* clock advances so far
    message,         \* the message table: id -> row
    next_id,         \* the last rowid the message table handed out
    attachment,      \* attachment rows per message id
    req,             \* the web process's request handlers
    resp,            \* the HTTP status the last step answered, per handler
    wpc,             \* the worker's position in run() / _process_batch()
    batch,           \* the worker's `messages` list (objects as read)
    wmsg,            \* the worker's current `message` object
    wnow,            \* the datetime.now() the worker's next write carries
    send_ok,         \* whether the last send_message() returned
    smtp_attempts,   \* the relay's log: send attempts per message
    smtp_accepted,   \* the relay's log: accepted sends per message
    written,         \* statuses ever written to a row after its creation
    running,         \* the worker's module global _running
    audit_log,       \* the audit_log table, in insertion (rowid) order
    api_key,         \* the api_key table: id -> row
    key_seq,         \* raw keys generated so far (each is new)
    auth,            \* api_key_required, per request: position, key, now
    blob_file,       \* the blob directory: disk_path -> state of the file
    attachment_row,  \* the attachment table, in insertion order
    saver,           \* save_attachment, per request: position and locals
    auditor,         \* _audit_log, per request: position and locals
    payload,         \* the JSON body of the last POST answered 201, and its uuid
    column,          \* the message table's payload columns: id -> columns
    reply,           \* the answer of the last GET /messages/<uuid>
    stored_rows,     \* rows of the message table a list query matches
    listing          \* the answer of the last GET /messages

vars == <<max_retries, batch_size, clock, ticks, message, next_id, attachment,
          req, resp,
          wpc, batch, wmsg, wnow, send_ok, smtp_attempts, smtp_accepted,
          written,
          running, audit_log, api_key, key_seq, auth, blob_file,
          attachment_row, saver, auditor,
          payload, column, reply, stored_rows, listing>>

----------------------------------------------------------------------------
(* Message rows and objects *)

\* The Message dataclass / a row of the message table (the columns the
\* lifecycle reads and writes).
Row(id, status, rr, now) ==
    [id |-> id, status |-> status, retries_remaining |-> rr,
     next_retry_at |-> NULL, last_error |-> NULL, sent_at |-> NULL,
     created_at |-> now, updated_at |-> now]

NoMsg == Row(0, "none", 0, 0)

\* Message.create: INSERT ... VALUES (?, 'queued', ..., max_retries, ..., now, now)
Create(db, id, retries, now) ==
    [i \in DOMAIN db \cup {id} |->
        IF i = id THEN Row(id, "queued", retries, now) ELSE db[i]]

\* Message.update_status with the sent_at assignment left out: sent_at keeps
\* the object's value whatever the status.
UpdateStatus_NoSentAt(db, self, now, status, last_error, next_retry_at) ==
    IF self.id \in DOMAIN db
    THEN [db EXCEPT ![self.id] =
            [@ EXCEPT !.status = status,
                      !.last_error = last_error,
                      !.next_retry_at = next_retry_at,
                      !.sent_at = self.sent_at,
                      !.updated_at = now,
                      !.retries_remaining = self.retries_remaining]]
    ELSE db

\* Message.update_status writing sent_at only with the status sent: any
\* other status leaves the stored sent_at as it is.
UpdateStatus_KeepsStoredSentAt(db, self, now, status, last_error, next_retry_at) ==
    IF self.id \in DOMAIN db
    THEN [db EXCEPT ![self.id] =
            [@ EXCEPT !.status = status,
                      !.last_error = last_error,
                      !.next_retry_at = next_retry_at,
                      !.sent_at = IF status = "sent" THEN Some(now) ELSE @,
                      !.updated_at = now,
                      !.retries_remaining = self.retries_remaining]]
    ELSE db

\* Message.update_status with created_at in the SET list as well.
UpdateStatus_TouchesCreatedAt(db, self, now, status, last_error, next_retry_at) ==
    IF self.id \in DOMAIN db
    THEN [db EXCEPT ![self.id] =
            [@ EXCEPT !.status = status,
                      !.last_error = last_error,
                      !.next_retry_at = next_retry_at,
                      !.sent_at = IF status = "sent" THEN Some(now) ELSE self.sent_at,
                      !.created_at = now,
                      !.updated_at = now,
                      !.retries_remaining = self.retries_remaining]]
    ELSE db

\* Message.update_status, the UPDATE: every lifecycle column of the row
\* WHERE id = self.id is overwritten from the arguments and from the object.
UpdateStatus(db, self, now, status, last_error, next_retry_at) ==
    IF self.id \in DOMAIN db
    THEN [db EXCEPT ![self.id] =
            [@ EXCEPT !.status = status,
                      !.last_error = last_error,
                      !.next_retry_at = next_retry_at,
                      !.sent_at = IF status = "sent" THEN Some(now) ELSE self.sent_at,
                      !.updated_at = now,
                      !.retries_remaining = self.retries_remaining]]
    ELSE db

\* Message.update_status, the object after the call.
Updated(self, now, status, last_error, next_retry_at) ==
    [self EXCEPT !.status = status,
                 !.last_error = last_error,
                 !.next_retry_at = next_retry_at,
                 !.updated_at = now,
                 !.sent_at = IF status = "sent" THEN Some(now) ELSE self.sent_at]

\* The history of statuses written to row id.
Wrote(w, db, id, status) ==
    IF id \in DOMAIN db THEN [w EXCEPT ![id] = @ \cup {status}] ELSE w

Idle == [op |-> "idle", msg |-> NoMsg, atts |-> <<>>, now |-> 0]

\* resp holds the HTTP status the step just taken answered (0: none).
NoResp == [r \in Reqs |-> 0]
Answer(r, code) == [NoResp EXCEPT ![r] = code]

\* api_key_required / save_attachment / _audit_log not running.
NoAuth == [pc |-> "none", key |-> 0, now |-> 0]
NoSave == [pc |-> "none", message_id |-> 0, data |-> 0, sha256 |-> NULL,
           disk_path |-> NULL]
NoAudit == [pc |-> "none", now |-> 0, action |-> "none", target |-> 0]

\* No POST, GET /messages/<uuid> or GET /messages answered yet.
NoPayload == [uuid |-> 0]
NoReply == [code |-> 0]
NoListing == [code |-> 0]

\* The worker running, and the tables and the blob directory of a fresh
\* installation.
AuxInit ==
    /\ running = TRUE
    /\ audit_log = <<>>
    /\ api_key = <<>>
    /\ key_seq = 0
    /\ auth = [r \in Reqs |-> NoAuth]
    /\ blob_file = <<>>
    /\ attachment_row = <<>>
    /\ saver = [h \in Handlers |-> NoSave]
    /\ auditor = [h \in Handlers |-> NoAudit]
    /\ payload = NoPayload
    /\ reply = NoReply
    /\ listing = NoListing

Init ==
    /\ max_retries \in MaxRetriesChoices
    /\ batch_size = QUEUE_BATCH_SIZE
    /\ clock = 0
    /\ ticks = 0
    /\ message = <<>>
    /\ next_id = 0
    /\ attachment = [i \in MsgIds |-> 0]
    /\ req = [r \in Reqs |-> Idle]
    /\ resp = NoResp
    /\ wpc = "idle"
    /\ batch = <<>>
    /\ wmsg = NoMsg
    /\ wnow = 0
    /\ send_ok = FALSE
    /\ smtp_attempts = [i \in MsgIds |-> 0]
    /\ smtp_accepted = [i \in MsgIds |-> 0]
    /\ written = [i \in MsgIds |-> {}]
    /\ AuxInit
    /\ column = <<>>
    /\ stored_rows = 0

configVars == <<max_retries, batch_size>>
readVars == <<payload, column, reply, stored_rows, listing>>
keyVars == <<api_key, key_seq, auth>>
blobVars == <<blob_file, attachment_row, saver>>
auxVars == <<running, keyVars, blobVars, auditor>>
workerVars == <<wpc, batch, wmsg, wnow, send_ok>>
smtpVars == <<smtp_attempts, smtp_accepted>>
queueVars == <<configVars, readVars, ticks, message, next_id, attachment, req,
               smtpVars, written>>
webVars == <<audit_log, keyVars, blobVars, auditor>>

\* _audit_log, the INSERT: one row appended to audit_log.
AuditLog(log, now, action, target) ==
    Append(log, [timestamp |-> now, action |-> action, target |-> target])

\* Time passes.
Tick ==
    /\ ticks < MaxTicks
    /\ \E d \in TickSteps : clock' = clock + d
    /\ ticks' = ticks + 1
    /\ resp' = NoResp
    /\ UNCHANGED <<configVars, readVars, auxVars, audit_log,
                   message, next_id, attachment, req, workerVars,
                   smtpVars, written>>

----------------------------------------------------------------------------
(* The web process: POST /api/v1/messages *)

\* The attachment lists a submission may carry.
AttLists == UNION {[1..n -> AttKinds] : n \in 0..MaxAtt}

\* submit_message up to and including Message.create: the validation of
\* from_address, to and body_type answers 400 before anything is written;
\* otherwise the row is inserted and committed, with Message.create's default
\* max_retries, and the attachment loop starts.  Without attachments the
\* request writes its audit row and is answered 201.
ReqSubmit(r) ==
    /\ req[r].op = "idle"
    /\ \E valid \in BOOLEAN, atts \in AttLists :
        IF ~valid
        THEN /\ resp' = Answer(r, 400)
             /\ UNCHANGED <<message, next_id, req, audit_log>>
        ELSE /\ next_id < MaxMsgs
             /\ next_id' = next_id + 1
             /\ message' = Create(message, next_id + 1, CREATE_MAX_RETRIES, clock)
             /\ IF atts = <<>>
                THEN /\ req' = req
                     /\ audit_log' = AuditLog(audit_log, clock, "message_submitted",
                                              next_id + 1)
                     /\ resp' = Answer(r, 201)
                ELSE /\ req' = [req EXCEPT ![r] =
                            [op |-> "submit",
                             msg |-> Row(next_id + 1, "queued", CREATE_MAX_RETRIES, clock),
                             atts |-> atts, now |-> clock]]
                     /\ audit_log' = audit_log
                     /\ resp' = NoResp
    /\ UNCHANGED <<configVars, readVars, auxVars,
                   clock, ticks, attachment, workerVars, smtpVars,
                   written>>

\* One turn of submit_message's attachment loop: a base64 that does not
\* decode, or save_attachment's ValueError (too large), answers 400 and
\* returns; otherwise save_attachment commits one attachment row.  After the
\* last attachment the request writes its audit row and is answered 201.
ReqAttach(r) ==
    /\ req[r].op = "submit"
    /\ LET att == Head(req[r].atts)
           rest == Tail(req[r].atts)
       IN IF att # "ok"
          THEN /\ resp' = Answer(r, 400)
               /\ req' = [req EXCEPT ![r] = Idle]
               /\ UNCHANGED <<attachment, audit_log>>
          ELSE /\ attachment' = [attachment EXCEPT ![req[r].msg.id] = @ + 1]
               /\ IF rest = <<>>
                  THEN /\ req' = [req EXCEPT ![r] = Idle]
                       /\ audit_log' = AuditLog(audit_log, clock, "message_submitted",
                                                req[r].msg.id)
                       /\ resp' = Answer(r, 201)
                  ELSE /\ req' = [req EXCEPT ![r].atts = rest]
                       /\ audit_log' = audit_log
                       /\ resp' = NoResp
    /\ UNCHANGED <<configVars, readVars, auxVars,
                   clock, ticks, message, next_id, workerVars,
                   smtpVars, written>>

----------------------------------------------------------------------------
(* The web process: retry and cancel (API and admin UI run the same code) *)

\* retry_message / retry up to the status check: Message.get_by_uuid, 404 for
\* an unknown uuid, 400 unless the status read is failed or dead.
ReqRetryRead(r, u) ==
    /\ req[r].op = "idle"
    /\ IF u \notin DOMAIN message
       THEN resp' = Answer(r, 404) /\ UNCHANGED req
       ELSE IF message[u].status \notin {"failed", "dead"}
       THEN resp' = Answer(r, 400) /\ UNCHANGED req
       ELSE /\ req' = [req EXCEPT ![r] =
                    [op |-> "retry", msg |-> message[u], atts |-> <<>>,
                     now |-> clock]]
            /\ resp' = NoResp
    /\ UNCHANGED <<configVars, readVars, auxVars, audit_log,
                   clock, ticks, message, next_id, attachment,
                   workerVars, smtpVars, written>>

\* retry_message / retry from the assignment of retries_remaining on:
\* message.retries_remaining = config["QUEUE_MAX_RETRIES"], then
\* message.update_status("queued") in a transaction of its own, then the
\* audit row.
ReqRetryWrite(r) ==
    /\ req[r].op = "retry"
    /\ LET self == [req[r].msg EXCEPT !.retries_remaining = max_retries]
       IN /\ message' = UpdateStatus(message, self, req[r].now, "queued", NULL, NULL)
          /\ written' = Wrote(written, message, self.id, "queued")
          /\ audit_log' = AuditLog(audit_log, clock, "message_retried", self.id)
    /\ req' = [req EXCEPT ![r] = Idle]
    /\ resp' = Answer(r, 200)
    /\ UNCHANGED <<configVars, readVars, auxVars,
                   clock, ticks, next_id, attachment, workerVars,
                   smtpVars>>

\* cancel_message / cancel without the status check: every known message is
\* accepted for cancellation.
ReqCancelRead_AnyStatus(r, u) ==
    /\ req[r].op = "idle"
    /\ IF u \notin DOMAIN message
       THEN resp' = Answer(r, 404) /\ UNCHANGED req
       ELSE /\ req' = [req EXCEPT ![r] =
                    [op |-> "cancel", msg |-> message[u], atts |-> <<>>,
                     now |-> clock]]
            /\ resp' = NoResp
    /\ UNCHANGED <<configVars, readVars, auxVars, audit_log,
                   clock, ticks, message, next_id, attachment,
                   workerVars, smtpVars, written>>

\* cancel_message / cancel up to the status check: 404 for an unknown uuid,
\* 400 unless the status read is queued.
ReqCancelRead(r, u) ==
    /\ req[r].op = "idle"
    /\ IF u \notin DOMAIN message
       THEN resp' = Answer(r, 404) /\ UNCHANGED req
       ELSE IF message[u].status # "queued"
       THEN resp' = Answer(r, 400) /\ UNCHANGED req
       ELSE /\ req' = [req EXCEPT ![r] =
                    [op |-> "cancel", msg |-> message[u], atts |-> <<>>,
                     now |-> clock]]
            /\ resp' = NoResp
    /\ UNCHANGED <<configVars, readVars, auxVars, audit_log,
                   clock, ticks, message, next_id, attachment,
                   workerVars, smtpVars, written>>

\* cancel_message / cancel: message.update_status("cancelled"), then the
\* audit row.
ReqCancelWrite(r) ==
    /\ req[r].op = "cancel"
    /\ message' = UpdateStatus(message, req[r].msg, req[r].now, "cancelled", NULL, NULL)
    /\ written' = Wrote(written, message, req[r].msg.id, "cancelled")
    /\ audit_log' = AuditLog(audit_log, clock, "message_cancelled", req[r].msg.id)
    /\ req' = [req EXCEPT ![r] = Idle]
    /\ resp' = Answer(r, 200)
    /\ UNCHANGED <<configVars, readVars, auxVars,
                   clock, ticks, next_id, attachment, workerVars,
                   smtpVars>>

----------------------------------------------------------------------------
(* The client library's LocalBackend: each call is one transaction *)

\* LocalBackend.retry_message with "next_retry_at = NULL" missing from the
\* UPDATE.
LocalRetry_KeepsNextRetry(u) ==
    /\ IF u \in DOMAIN message /\ message[u].status \in {"failed", "dead"}
       THEN /\ message' = [message EXCEPT ![u] =
                    [@ EXCEPT !.status = "queued",
                              !.retries_remaining = LOCAL_MAX_RETRIES,
                              !.updated_at = clock]]
            /\ written' = Wrote(written, message, u, "queued")
       ELSE UNCHANGED <<message, written>>
    /\ resp' = NoResp
    /\ UNCHANGED <<configVars, readVars, auxVars, audit_log,
                   clock, ticks, next_id, attachment, req,
                   workerVars, smtpVars>>

\* LocalBackend.retry_message: SELECT status and UPDATE inside one
\* BEGIN IMMEDIATE; nothing changes for an unknown uuid or another status.
LocalRetry(u) ==
    /\ IF u \in DOMAIN message /\ message[u].status \in {"failed", "dead"}
       THEN /\ message' = [message EXCEPT ![u] =
                    [@ EXCEPT !.status = "queued",
                              !.retries_remaining = LOCAL_MAX_RETRIES,
                              !.next_retry_at = NULL,
                              !.updated_at = clock]]
            /\ written' = Wrote(written, message, u, "queued")
       ELSE UNCHANGED <<message, written>>
    /\ resp' = NoResp
    /\ UNCHANGED <<configVars, readVars, auxVars, audit_log,
                   clock, ticks, next_id, attachment, req,
                   workerVars, smtpVars>>

\* LocalBackend.cancel_message without the status check: the UPDATE runs
\* for every uuid that exists.
LocalCancel_AnyStatus(u) ==
    /\ IF u \in DOMAIN message
       THEN /\ message' = [message EXCEPT ![u] =
                    [@ EXCEPT !.status = "cancelled", !.updated_at = clock]]
            /\ written' = Wrote(written, message, u, "cancelled")
       ELSE UNCHANGED <<message, written>>
    /\ resp' = NoResp
    /\ UNCHANGED <<configVars, readVars, auxVars, audit_log,
                   clock, ticks, next_id, attachment, req,
                   workerVars, smtpVars>>

\* LocalBackend.cancel_message: SELECT status and UPDATE inside one
\* BEGIN IMMEDIATE; nothing changes for an unknown uuid or another status.
LocalCancel(u) ==
    /\ IF u \in DOMAIN message /\ message[u].status = "queued"
       THEN /\ message' = [message EXCEPT ![u] =
                    [@ EXCEPT !.status = "cancelled", !.updated_at = clock]]
            /\ written' = Wrote(written, message, u, "cancelled")
       ELSE UNCHANGED <<message, written>>
    /\ resp' = NoResp
    /\ UNCHANGED <<configVars, readVars, auxVars, audit_log,
                   clock, ticks, next_id, attachment, req,
                   workerVars, smtpVars>>

----------------------------------------------------------------------------
(* The queue worker *)

\* The WHERE clause of get_pending_batch without "next_retry_at <= ?".
Pending_NoDueCheck(row, now) ==
    \/ row.status = "queued"
    \/ /\ row.status = "failed"
       /\ row.next_retry_at # NULL

\* The WHERE clause of get_pending_batch with a recovery of rows left in
\* sending: status IN ('queued', 'sending') OR (failed and due).
Pending_WithSending(row, now) ==
    \/ row.status \in {"queued", "sending"}
    \/ /\ row.status = "failed"
       /\ row.next_retry_at # NULL
       /\ Val(row.next_retry_at) <= now

\* The WHERE clause of Message.get_pending_batch.
Pending(row, now) ==
    \/ row.status = "queued"
    \/ /\ row.status = "failed"
       /\ row.next_retry_at # NULL
       /\ Val(row.next_retry_at) <= now

\* Message.get_pending_batch: the pending rows ORDER BY created_at ASC
\* LIMIT ? (batch_size), as objects.  Rows of equal created_at come in either
\* order (SQL leaves it open).
GetPendingBatch(db, now, limit) ==
    LET ids == {i \in DOMAIN db : Pending(db[i], now)}
        n == Min(Cardinality(ids), limit)
    IN {[k \in 1..n |-> db[s[k]]] :
          s \in {t \in [1..n -> ids] :
                   /\ \A j, k \in 1..n : j < k =>
                        /\ t[j] # t[k]
                        /\ db[t[j]].created_at <= db[t[k]].created_at
                   /\ \A i \in ids \ {t[k] : k \in 1..n} :
                        \A k \in 1..n : db[t[k]].created_at <= db[i].created_at}}

\* The delay with a product in place of the power:
\* min(retry_base * exponent, retry_max).
Delay_Linear(exponent) ==
    Min(QUEUE_RETRY_BASE_SECONDS * exponent, QUEUE_RETRY_MAX_SECONDS)

\* delay = min(retry_base * (2**exponent), retry_max).  Python's 2**exponent
\* is a fraction for a negative exponent; the quotient is exact as long as
\* 2^(-exponent) divides retry_base (exponent >= -3 for 120).  A delay with
\* a fraction of a second is rounded up: against the clock's whole seconds,
\* next_retry_at <= now holds from the next whole second on.
Delay(exponent) ==
    IF exponent >= 0
    THEN Min(QUEUE_RETRY_BASE_SECONDS * Pow2(exponent), QUEUE_RETRY_MAX_SECONDS)
    ELSE Min((QUEUE_RETRY_BASE_SECONDS + Pow2(-exponent) - 1) \div Pow2(-exponent),
             QUEUE_RETRY_MAX_SECONDS)

\* run(), one turn of "while _running": _process_batch reads the batch; with
\* an empty batch it returns and _purge_old runs next.
WorkerPoll ==
    /\ wpc = "idle"
    /\ running
    /\ \E b \in GetPendingBatch(message, clock, batch_size) :
        /\ batch' = b
        /\ wpc' = IF b = <<>> THEN "purge" ELSE "pickup"
    /\ wnow' = clock
    /\ resp' = NoResp
    /\ UNCHANGED <<configVars, readVars, auxVars, audit_log,
                   clock, ticks, message, next_id, attachment, req,
                   wmsg, send_ok, smtpVars, written>>

\* _process_batch, top of the loop: message.update_status("sending") on the
\* object read by get_pending_batch.
WorkerPickUp ==
    /\ wpc = "pickup"
    /\ LET m == Head(batch)
       IN /\ message' = UpdateStatus(message, m, wnow, "sending", NULL, NULL)
          /\ written' = Wrote(written, message, m.id, "sending")
          /\ wmsg' = Updated(m, wnow, "sending", NULL, NULL)
    /\ wpc' = "send"
    /\ resp' = NoResp
    /\ UNCHANGED <<configVars, readVars, auxVars, audit_log,
                   clock, ticks, next_id, attachment, req, batch,
                   wnow, send_ok, smtpVars>>

\* send_message(message): the relay accepts the mail or the call raises.
WorkerSend ==
    /\ wpc = "send"
    /\ smtp_attempts[wmsg.id] < MaxSends
    /\ \E ok \in BOOLEAN :
        /\ send_ok' = ok
        /\ smtp_accepted' = [smtp_accepted EXCEPT ![wmsg.id] = IF ok THEN @ + 1 ELSE @]
    /\ smtp_attempts' = [smtp_attempts EXCEPT ![wmsg.id] = @ + 1]
    /\ wnow' = clock
    /\ wpc' = "result"
    /\ resp' = NoResp
    /\ UNCHANGED <<configVars, readVars, auxVars, audit_log,
                   clock, ticks, message, next_id, attachment, req,
                   batch, wmsg, written>>

\* The except branch of _process_batch: retries_remaining -= 1, then failed
\* with next_retry_at = now + delay while retries remain, else dead.
FailureStatus(m) == IF m.retries_remaining - 1 > 0 THEN "failed" ELSE "dead"

\* The except branch computing the exponent before retries_remaining -= 1.
FailureNextRetry_BeforeDecrement(m, now) ==
    IF m.retries_remaining - 1 > 0
    THEN Some(now + Delay(max_retries - m.retries_remaining))
    ELSE NULL

FailureNextRetry(m, now) ==
    IF m.retries_remaining - 1 > 0
    THEN Some(now + Delay(max_retries - (m.retries_remaining - 1)))
    ELSE NULL

\* _process_batch, the write after send_message: update_status("sent"), or
\* the except branch; then the loop goes on with the next message.
WorkerResult ==
    /\ wpc = "result"
    /\ IF send_ok
       THEN /\ message' = UpdateStatus(message, wmsg, wnow, "sent", NULL, NULL)
            /\ written' = Wrote(written, message, wmsg.id, "sent")
       ELSE LET m == [wmsg EXCEPT !.retries_remaining = @ - 1]
            IN /\ message' = UpdateStatus(message, m, wnow, FailureStatus(wmsg),
                                          Some("error"), FailureNextRetry(wmsg, wnow))
               /\ written' = Wrote(written, message, m.id, FailureStatus(wmsg))
    /\ batch' = Tail(batch)
    /\ wpc' = IF Tail(batch) = <<>> THEN "purge" ELSE "pickup"
    /\ wmsg' = NoMsg
    /\ wnow' = clock
    /\ resp' = NoResp
    /\ UNCHANGED <<configVars, readVars, auxVars, audit_log,
                   clock, ticks, next_id, attachment, req,
                   send_ok, smtpVars>>

\* The WHERE clause of purge_old without the status condition.
Purgeable_AnyStatus(row, cutoff) == row.updated_at < cutoff

\* The WHERE clause of Message.purge_old.
Purgeable(row, cutoff) ==
    /\ row.status \in {"sent", "dead", "cancelled"}
    /\ row.updated_at < cutoff

\* purge_old deleting one row per run (the purgeable row of the lowest id).
PurgeOld_OneRow(db, now, retention) ==
    LET ids == {j \in DOMAIN db : Purgeable(db[j], now - retention)}
    IN [i \in {j \in DOMAIN db : j \notin ids \/ \E k \in ids : k < j} |-> db[i]]

\* Message.purge_old: the table without the purgeable rows.
PurgeOld(db, now, retention) ==
    [i \in {j \in DOMAIN db : ~Purgeable(db[j], now - retention)} |-> db[i]]

\* Message.purge_old, the value returned: SELECT changes() after the DELETE.
PurgeCount(db, now, retention) ==
    Cardinality(DOMAIN db \ DOMAIN PurgeOld(db, now, retention))

\* The attachment rows of the messages a purge deleted go with them (stated
\* by the specification; the schema is not among the sources).
PurgeAttachments(att, before, after) ==
    [i \in DOMAIN att |->
        IF i \in DOMAIN before /\ i \notin DOMAIN after THEN 0 ELSE att[i]]

\* _purge_old, then the sleep until the next poll.  The attachment rows of a
\* purged message go with it.
WorkerPurge ==
    /\ wpc = "purge"
    /\ message' = PurgeOld(message, clock, RetentionSeconds)
    /\ attachment' = PurgeAttachments(attachment, message, message')
    /\ wpc' = "idle"
    /\ resp' = NoResp
    /\ UNCHANGED <<configVars, readVars, auxVars, audit_log,
                   clock, ticks, next_id, req, batch, wmsg,
                   wnow, send_ok, smtpVars, written>>

----------------------------------------------------------------------------
(* The queue worker: shutdown and exceptions *)

\* _handle_signal: SIGINT or SIGTERM sets _running to False.
Signal ==
    /\ running
    /\ running' = FALSE
    /\ resp' = NoResp
    /\ UNCHANGED <<queueVars, webVars, workerVars, clock>>

\* run(): "while _running" (and the sleep loop) finds _running False and the
\* worker stops.
WorkerStop ==
    /\ wpc = "idle"
    /\ ~running
    /\ wpc' = "stopped"
    /\ resp' = NoResp
    /\ UNCHANGED <<queueVars, webVars, clock, running, batch, wmsg, wnow, send_ok>>

\* run() without its try/except: the exception ends the worker.
WorkerPickUpRaises_Terminates ==
    /\ wpc = "pickup"
    /\ wpc' = "stopped"
    /\ batch' = <<>>
    /\ wmsg' = NoMsg
    /\ resp' = NoResp
    /\ UNCHANGED <<queueVars, webVars, clock, running, wnow, send_ok>>

\* _process_batch: message.update_status("sending") raises (a database
\* error; the transaction is rolled back).  The call is outside the try, so
\* the exception leaves _process_batch; run() logs it, skips _purge_old and
\* goes to sleep.
WorkerPickUpRaises ==
    /\ wpc = "pickup"
    /\ wpc' = "idle"
    /\ batch' = <<>>
    /\ wmsg' = NoMsg
    /\ resp' = NoResp
    /\ UNCHANGED <<queueVars, webVars, clock, running, wnow, send_ok>>

\* _process_batch: send_message returned and message.update_status("sent")
\* raises.  The call is inside the try: the except branch runs next.
WorkerSentWriteRaises ==
    /\ wpc = "result"
    /\ send_ok
    /\ wpc' = "except"
    /\ wnow' = clock
    /\ resp' = NoResp
    /\ UNCHANGED <<queueVars, webVars, clock, running, batch, wmsg, send_ok>>

\* _process_batch, the except branch entered from update_status("sent"):
\* retries_remaining -= 1, then failed or dead with last_error = str(exc);
\* then the loop goes on with the next message.
WorkerExcept ==
    /\ wpc = "except"
    /\ LET m == [wmsg EXCEPT !.retries_remaining = @ - 1]
       IN /\ message' = UpdateStatus(message, m, wnow, FailureStatus(wmsg),
                                     Some("error"), FailureNextRetry(wmsg, wnow))
          /\ written' = Wrote(written, message, m.id, FailureStatus(wmsg))
    /\ batch' = Tail(batch)
    /\ wpc' = IF Tail(batch) = <<>> THEN "purge" ELSE "pickup"
    /\ wmsg' = NoMsg
    /\ wnow' = clock
    /\ resp' = NoResp
    /\ UNCHANGED <<configVars, readVars, auxVars, audit_log,
                   clock, ticks, next_id, attachment, req, send_ok, smtpVars>>

\* _process_batch: the update_status of the except branch raises.  The
\* exception leaves _process_batch with the row as the pick-up wrote it;
\* run() logs it, skips _purge_old and goes to sleep.
WorkerFailureWriteRaises ==
    /\ \/ wpc = "result" /\ ~send_ok
       \/ wpc = "except"
    /\ wpc' = "idle"
    /\ batch' = <<>>
    /\ wmsg' = NoMsg
    /\ resp' = NoResp
    /\ UNCHANGED <<queueVars, webVars, clock, running, wnow, send_ok>>

----------------------------------------------------------------------------
(* The web process: _audit_log, statement by statement *)

AuditActions == {"message_submitted", "message_retried", "message_cancelled"}

\* _audit_log up to the INSERT: now = datetime.now(UTC).isoformat().
AuditNow(h, action, target) ==
    /\ auditor[h].pc = "none"
    /\ Len(audit_log) < MaxAudit
    /\ auditor' = [auditor EXCEPT ![h] =
            [pc |-> "insert", now |-> clock, action |-> action, target |-> target]]
    /\ resp' = NoResp
    /\ UNCHANGED <<queueVars, workerVars, clock, running, audit_log, keyVars,
                   blobVars>>

\* _audit_log, the INSERT, with the timestamp taken before it.
AuditInsert(h) ==
    /\ auditor[h].pc = "insert"
    /\ audit_log' = AuditLog(audit_log, auditor[h].now, auditor[h].action,
                             auditor[h].target)
    /\ auditor' = [auditor EXCEPT ![h] = NoAudit]
    /\ resp' = NoResp
    /\ UNCHANGED <<queueVars, workerVars, clock, running, keyVars, blobVars>>

----------------------------------------------------------------------------
(* The web process: save_attachment, statement by statement *)

\* len(data): content c is c bytes long.
Size(c) == c

\* hashlib.sha256(data).hexdigest(): one digest per content (no collisions).
Sha256(c) == <<"sha256", c>>

\* sha256[:2], the subdirectory: different digests may share it.
Prefix(digest) == digest[2] % 2

\* blob_dir / sha256[:2] / sha256
BlobPath(digest) == <<"blobs", Prefix(digest), digest>>

\* The digest of what a file holds: that of its content once all of it is
\* written, of a shorter byte string before.
FileDigest(file) ==
    IF file.length = Size(file.content) THEN Sha256(file.content)
    ELSE <<"sha256", <<file.content, file.length>>>>

\* The attachment rows WHERE sha256 = ?
RowsBySha256(rows, digest) == {k \in 1..Len(rows) : rows[k].sha256 = digest}

\* save_attachment storing every new file under a path of its message.
SaveFind_PathByMessage(h, c) ==
    /\ saver[h].pc = "none"
    /\ Cardinality({k \in 1..Len(attachment_row) :
                        attachment_row[k].message_id = h}) < MaxPuts
    /\ LET digest == Sha256(c)
           found == RowsBySha256(attachment_row, digest)
           local == [pc |-> "open", message_id |-> h, data |-> c,
                     sha256 |-> digest, disk_path |-> <<"blobs", h, digest>>]
       IN \/ /\ found = {}
             /\ saver' = [saver EXCEPT ![h] = local]
          \/ \E e \in found :
                saver' = [saver EXCEPT ![h] =
                    IF attachment_row[e].disk_path \in DOMAIN blob_file
                    THEN [local EXCEPT !.pc = "create",
                                       !.disk_path = attachment_row[e].disk_path]
                    ELSE local]
    /\ resp' = NoResp
    /\ UNCHANGED <<queueVars, workerVars, clock, running, audit_log, keyVars,
                   blob_file, attachment_row, auditor>>

\* save_attachment up to the choice of disk_path, for the attachments of
\* request h's message (data within the size limit): the digest, then
\* Attachment.find_by_sha256 (any one row of that digest); the row's
\* disk_path if the row was found and its file exists, else the path of the
\* digest under the blob directory, to be written.
SaveFind(h, c) ==
    /\ saver[h].pc = "none"
    /\ Cardinality({k \in 1..Len(attachment_row) :
                        attachment_row[k].message_id = h}) < MaxPuts
    /\ LET digest == Sha256(c)
           found == RowsBySha256(attachment_row, digest)
           local == [pc |-> "open", message_id |-> h, data |-> c,
                     sha256 |-> digest, disk_path |-> BlobPath(digest)]
       IN \/ /\ found = {}
             /\ saver' = [saver EXCEPT ![h] = local]
          \/ \E e \in found :
                saver' = [saver EXCEPT ![h] =
                    IF attachment_row[e].disk_path \in DOMAIN blob_file
                    THEN [local EXCEPT !.pc = "create",
                                       !.disk_path = attachment_row[e].disk_path]
                    ELSE local]
    /\ resp' = NoResp
    /\ UNCHANGED <<queueVars, workerVars, clock, running, audit_log, keyVars,
                   blob_file, attachment_row, auditor>>

\* open(disk_path, "wb"): the file is created, or truncated if it exists.
SaveOpen(h) ==
    /\ saver[h].pc = "open"
    /\ blob_file' = [p \in DOMAIN blob_file \cup {saver[h].disk_path} |->
                        IF p = saver[h].disk_path
                        THEN [content |-> saver[h].data, length |-> 0]
                        ELSE blob_file[p]]
    /\ saver' = [saver EXCEPT ![h].pc = "write"]
    /\ resp' = NoResp
    /\ UNCHANGED <<queueVars, workerVars, clock, running, audit_log, keyVars,
                   attachment_row, auditor>>

\* f.write(data) and the close of the file.
SaveWrite(h) ==
    /\ saver[h].pc = "write"
    /\ blob_file' = [blob_file EXCEPT ![saver[h].disk_path] =
                        [content |-> saver[h].data, length |-> Size(saver[h].data)]]
    /\ saver' = [saver EXCEPT ![h].pc = "create"]
    /\ resp' = NoResp
    /\ UNCHANGED <<queueVars, workerVars, clock, running, audit_log, keyVars,
                   attachment_row, auditor>>

\* Attachment.create: the row is inserted and committed.  (data is not a
\* column: it records the bytes the row was created for.)
SaveCreate(h) ==
    /\ saver[h].pc = "create"
    /\ attachment_row' = Append(attachment_row,
            [message_id |-> saver[h].message_id, data |-> saver[h].data,
             size_bytes |-> Size(saver[h].data), sha256 |-> saver[h].sha256,
             disk_path |-> saver[h].disk_path])
    /\ attachment' = [attachment EXCEPT ![saver[h].message_id] = @ + 1]
    /\ saver' = [saver EXCEPT ![h] = NoSave]
    /\ resp' = NoResp
    /\ UNCHANGED <<configVars, readVars, ticks, message, next_id, req, smtpVars, written,
                   workerVars, clock, running, audit_log, keyVars, blob_file,
                   auditor>>

----------------------------------------------------------------------------
(* The web process: API keys *)

\* What a request may carry in X-API-Key: no header (0), the raw key of any
\* key ever generated, or a string that was never a key.
RawKeys == 0..(MaxKeys + 1)

\* ApiKey.verify, the SELECT without its "AND enabled = 1".
KeyRows_AnyKey(keys, raw) == {k \in DOMAIN keys : keys[k].key = raw}

\* ApiKey.verify, the SELECT: the rows WHERE key = ? AND enabled = 1.
KeyRows(keys, raw) == {k \in DOMAIN keys : keys[k].key = raw /\ keys[k].enabled}

\* api_key_required up to the UPDATE of ApiKey.verify: 401 for a missing
\* header; ApiKey.verify's SELECT, 401 if it finds no row; otherwise the row
\* is kept and now is read.
ApiVerifyRead(r, raw) ==
    /\ auth[r].pc = "none"
    /\ IF raw = 0 \/ KeyRows(api_key, raw) = {}
       THEN /\ resp' = Answer(r, 401)
            /\ auth' = auth
       ELSE /\ \E k \in KeyRows(api_key, raw) :
                auth' = [auth EXCEPT ![r] = [pc |-> "verify", key |-> k, now |-> clock]]
            /\ resp' = NoResp
    /\ UNCHANGED <<queueVars, workerVars, clock, running, audit_log, api_key,
                   key_seq, blobVars, auditor>>

\* ApiKey.verify, the UPDATE of last_used_at WHERE id = ? in a transaction
\* of its own; then g.api_key is set and the route's function is called.
ApiVerifyWrite(r) ==
    /\ auth[r].pc = "verify"
    /\ api_key' = IF auth[r].key \in DOMAIN api_key
                  THEN [api_key EXCEPT ![auth[r].key].last_used_at = Some(auth[r].now)]
                  ELSE api_key
    /\ auth' = [auth EXCEPT ![r].pc = "handler"]
    /\ resp' = NoResp
    /\ UNCHANGED <<queueVars, workerVars, clock, running, audit_log, key_seq,
                   blobVars, auditor>>

\* The route's function returns and the request ends.
ApiReturn(r) ==
    /\ auth[r].pc = "handler"
    /\ auth' = [auth EXCEPT ![r] = NoAuth]
    /\ resp' = NoResp
    /\ UNCHANGED <<queueVars, workerVars, clock, running, audit_log, api_key,
                   key_seq, blobVars, auditor>>

\* Admin UI, generate: ApiKey.generate inserts an enabled row with a new raw
\* key; then the audit row.
KeyGenerate ==
    /\ key_seq < MaxKeys
    /\ Len(audit_log) < MaxAudit
    /\ key_seq' = key_seq + 1
    /\ api_key' = [k \in DOMAIN api_key \cup {key_seq + 1} |->
                    IF k = key_seq + 1
                    THEN [key |-> key_seq + 1, enabled |-> TRUE, last_used_at |-> NULL]
                    ELSE api_key[k]]
    /\ audit_log' = AuditLog(audit_log, clock, "api_key_generated", key_seq + 1)
    /\ resp' = NoResp
    /\ UNCHANGED <<queueVars, workerVars, clock, running, auth, blobVars, auditor>>

\* Admin UI, toggle: ApiKey.get, then disable() or enable(); then the audit
\* row.
KeyToggle(k) ==
    /\ k \in DOMAIN api_key
    /\ Len(audit_log) < MaxAudit
    /\ api_key' = [api_key EXCEPT ![k].enabled = ~@]
    /\ audit_log' = AuditLog(audit_log, clock,
                             IF api_key[k].enabled THEN "api_key_disabled"
                             ELSE "api_key_enabled", k)
    /\ resp' = NoResp
    /\ UNCHANGED <<queueVars, workerVars, clock, running, key_seq, auth,
                   blobVars, auditor>>

\* Admin UI, delete: ApiKey.get, then delete(); then the audit row.
KeyDelete(k) ==
    /\ k \in DOMAIN api_key
    /\ Len(audit_log) < MaxAudit
    /\ api_key' = [j \in DOMAIN api_key \ {k} |-> api_key[j]]
    /\ audit_log' = AuditLog(audit_log, clock, "api_key_deleted", k)
    /\ resp' = NoResp
    /\ UNCHANGED <<queueVars, workerVars, clock, running, key_seq, auth,
                   blobVars, auditor>>

----------------------------------------------------------------------------
(* Specifications *)

Next ==
    \/ Tick
    \/ \E r \in Reqs : ReqSubmit(r)
    \/ \E r \in Reqs : ReqAttach(r)
    \/ \E r \in Reqs, u \in MsgIds : ReqRetryRead(r, u)
    \/ \E r \in Reqs : ReqRetryWrite(r)
    \/ \E r \in Reqs, u \in MsgIds : ReqCancelRead(r, u)
    \/ \E r \in Reqs : ReqCancelWrite(r)
    \/ \E u \in MsgIds : LocalRetry(u)
    \/ \E u \in MsgIds : LocalCancel(u)
    \/ WorkerPoll
    \/ WorkerPickUp
    \/ WorkerSend
    \/ WorkerResult
    \/ WorkerPurge

Spec == Init /\ [][Next]_vars

\* The deployment without client-library callers on the database: the web
\* process (API and admin UI) and the worker only.
NextApi ==
    \/ Tick
    \/ \E r \in Reqs : ReqSubmit(r)
    \/ \E r \in Reqs : ReqAttach(r)
    \/ \E r \in Reqs, u \in MsgIds : ReqRetryRead(r, u)
    \/ \E r \in Reqs : ReqRetryWrite(r)
    \/ \E r \in Reqs, u \in MsgIds : ReqCancelRead(r, u)
    \/ \E r \in Reqs : ReqCancelWrite(r)
    \/ WorkerPoll
    \/ WorkerPickUp
    \/ WorkerSend
    \/ WorkerResult
    \/ WorkerPurge

SpecApi == Init /\ [][NextApi]_vars

\* The same deployment configured with queue.max_retries = 0 (the
\* configuration accepts any integer).
InitZero ==
    /\ max_retries = 0
    /\ batch_size = QUEUE_BATCH_SIZE
    /\ clock = 0
    /\ ticks = 0
    /\ message = <<>>
    /\ next_id = 0
    /\ attachment = [i \in MsgIds |-> 0]
    /\ req = [r \in Reqs |-> Idle]
    /\ resp = NoResp
    /\ wpc = "idle"
    /\ batch = <<>>
    /\ wmsg = NoMsg
    /\ wnow = 0
    /\ send_ok = FALSE
    /\ smtp_attempts = [i \in MsgIds |-> 0]
    /\ smtp_accepted = [i \in MsgIds |-> 0]
    /\ written = [i \in MsgIds |-> {}]
    /\ AuxInit
    /\ column = <<>>
    /\ stored_rows = 0

SpecZero == InitZero /\ [][NextApi]_vars

----------------------------------------------------------------------------
(* The worker's batch over a table of several rows *)

RowIds == 1..MaxRows
Times == 0..MaxTime

\* A row as the lifecycle leaves it in the given status: a failed row holds
\* the next_retry_at and last_error of the worker's failure write, a dead row
\* its last_error, a sent row its sent_at.
StoredRow(id, status, created, retry_at) ==
    [id |-> id, status |-> status,
     retries_remaining |-> CASE status = "failed" -> CREATE_MAX_RETRIES - 1
                             [] status = "dead" -> 0
                             [] OTHER -> CREATE_MAX_RETRIES,
     next_retry_at |-> IF status = "failed" THEN Some(retry_at) ELSE NULL,
     last_error |-> IF status \in {"failed", "dead"} THEN Some("error") ELSE NULL,
     sent_at |-> IF status = "sent" THEN Some(created) ELSE NULL,
     created_at |-> created, updated_at |-> created]

\* The rows one id may hold.
StoredRows(id) ==
    {StoredRow(id, st, c, t) : st \in Statuses \ {"failed"}, c \in Times, t \in {0}}
    \cup {StoredRow(id, "failed", c, t) : c \in Times, t \in Times}

\* The tables of up to MaxRows rows.
Tables ==
    UNION {{db \in [1..n -> UNION {StoredRows(i) : i \in 1..n}] :
                \A i \in 1..n : db[i].id = i} : n \in 0..MaxRows}

\* The worker starts a poll over any such table, at any time, with any
\* batch_size from 1 to MaxBatch.
InitBatch ==
    /\ max_retries = CREATE_MAX_RETRIES
    /\ batch_size \in 1..MaxBatch
    /\ clock \in Times
    /\ ticks = 0
    /\ message \in Tables
    /\ next_id = Len(message)
    /\ attachment = [i \in RowIds |-> 0]
    /\ req = [r \in Reqs |-> Idle]
    /\ resp = NoResp
    /\ wpc = "idle"
    /\ batch = <<>>
    /\ wmsg = NoMsg
    /\ wnow = 0
    /\ send_ok = FALSE
    /\ smtp_attempts = [i \in RowIds |-> 0]
    /\ smtp_accepted = [i \in RowIds |-> 0]
    /\ written = [i \in RowIds |-> {}]
    /\ AuxInit
    /\ column = <<>>
    /\ stored_rows = 0

\* One pass of _process_batch.
NextBatch ==
    \/ WorkerPoll
    \/ WorkerPickUp
    \/ WorkerSend
    \/ WorkerResult

SpecBatch == InitBatch /\ [][NextBatch]_vars

----------------------------------------------------------------------------
(* The retention purge over a table of several rows *)

\* The tables purge_old is applied to: up to MaxPurgeRows rows in any status,
\* last written at any of Times.
PurgeRows(id) == {StoredRow(id, st, c, 0) : st \in Statuses, c \in Times}

PurgeTables ==
    UNION {{db \in [1..n -> UNION {PurgeRows(i) : i \in 1..n}] :
                \A i \in 1..n : db[i].id = i} : n \in 0..MaxPurgeRows}

\* The worker runs over any such table from a time at which the retention
\* cutoff (now - retention) falls among the rows' timestamps.
InitPurge ==
    /\ max_retries = CREATE_MAX_RETRIES
    /\ batch_size = QUEUE_BATCH_SIZE
    /\ clock \in {RetentionSeconds + t : t \in Times}
    /\ ticks = 0
    /\ message \in PurgeTables
    /\ next_id = Len(message)
    /\ attachment = [i \in RowIds |-> 0]
    /\ req = [r \in Reqs |-> Idle]
    /\ resp = NoResp
    /\ wpc = "idle"
    /\ batch = <<>>
    /\ wmsg = NoMsg
    /\ wnow = 0
    /\ send_ok = FALSE
    /\ smtp_attempts = [i \in RowIds |-> 0]
    /\ smtp_accepted = [i \in RowIds |-> 0]
    /\ written = [i \in RowIds |-> {}]
    /\ AuxInit
    /\ column = <<>>
    /\ stored_rows = 0

\* The worker's cycles (batch, then purge), with the client library's retry
\* and cancel running beside it.
NextPurge ==
    \/ WorkerPoll
    \/ WorkerPickUp
    \/ WorkerSend
    \/ WorkerResult
    \/ WorkerPurge
    \/ \E u \in RowIds : LocalRetry(u)
    \/ \E u \in RowIds : LocalCancel(u)

SpecPurge == InitPurge /\ [][NextPurge]_vars

\* Submissions that have created their message rows (one per request) and
\* store attachments side by side.
InitBlob ==
    /\ max_retries = CREATE_MAX_RETRIES
    /\ batch_size = QUEUE_BATCH_SIZE
    /\ clock = 0
    /\ ticks = 0
    /\ message = [i \in Handlers |-> Row(i, "queued", CREATE_MAX_RETRIES, 0)]
    /\ next_id = MaxHandlers
    /\ attachment = [i \in Handlers |-> 0]
    /\ req = [r \in Reqs |-> Idle]
    /\ resp = NoResp
    /\ wpc = "idle"
    /\ batch = <<>>
    /\ wmsg = NoMsg
    /\ wnow = 0
    /\ send_ok = FALSE
    /\ smtp_attempts = [i \in Handlers |-> 0]
    /\ smtp_accepted = [i \in Handlers |-> 0]
    /\ written = [i \in Handlers |-> {}]
    /\ AuxInit
    /\ column = <<>>
    /\ stored_rows = 0

NextBlob ==
    \/ \E h \in Handlers, c \in Contents : SaveFind(h, c)
    \/ \E h \in Handlers : SaveOpen(h)
    \/ \E h \in Handlers : SaveWrite(h)
    \/ \E h \in Handlers : SaveCreate(h)

SpecBlob == InitBlob /\ [][NextBlob]_vars

\* API requests passing api_key_required while the administrator generates,
\* toggles and deletes keys.
NextAuth ==
    \/ Tick
    \/ \E r \in Reqs, raw \in RawKeys : ApiVerifyRead(r, raw)
    \/ \E r \in Reqs : ApiVerifyWrite(r)
    \/ \E r \in Reqs : ApiReturn(r)
    \/ KeyGenerate
    \/ \E k \in KeyIds : KeyToggle(k)
    \/ \E k \in KeyIds : KeyDelete(k)

SpecAuth == Init /\ [][NextAuth]_vars

\* Requests of the web process writing their audit rows side by side.
NextAudit ==
    \/ Tick
    \/ \E h \in Handlers, a \in AuditActions, t \in MsgIds : AuditNow(h, a, t)
    \/ \E h \in Handlers : AuditInsert(h)

SpecAudit == Init /\ [][NextAudit]_vars

\* The worker alone over such a table: its cycles, the database errors of
\* its status writes, and the shutdown signal.
NextWorker ==
    \/ WorkerPoll
    \/ WorkerPickUp
    \/ WorkerSend
    \/ WorkerResult
    \/ WorkerPurge
    \/ WorkerPickUpRaises
    \/ WorkerSentWriteRaises
    \/ WorkerExcept
    \/ WorkerFailureWriteRaises
    \/ Signal
    \/ WorkerStop

SpecWorker == InitPurge /\ [][NextWorker]_vars

----------------------------------------------------------------------------
(* Properties *)

\* The steps that write a message row, read off the processes' positions.
ReqWrites(r) == req[r].op \in {"retry", "cancel"} /\ req'[r].op = "idle"
WorkerPicksUp == wpc = "pickup" /\ wpc' = "send"
WorkerWritesResult == wpc = "result" /\ wpc' # "result"
Sends(i) == smtp_attempts'[i] > smtp_attempts[i]
Kept == DOMAIN message \cap DOMAIN message'

\* The row an object was read from still holds what the object holds.
RowAsRead(obj) ==
    obj.id \in DOMAIN message =>
        /\ message[obj.id].status = obj.status
        /\ message[obj.id].retries_remaining = obj.retries_remaining
        /\ message[obj.id].last_error = obj.last_error
        /\ message[obj.id].next_retry_at = obj.next_retry_at
        /\ message[obj.id].sent_at = obj.sent_at

\* The status changes of the state machine of the delivery engine.
AllowedTransitions ==
    {<<"queued", "sending">>, <<"failed", "sending">>, <<"sending", "sent">>,
     <<"sending", "failed">>, <<"sending", "dead">>, <<"failed", "queued">>,
     <<"dead", "queued">>, <<"queued", "cancelled">>}

\* C1: every change of a row's status is one of the allowed transitions
\* (queued->sending, failed->sending, sending->sent, sending->failed,
\* sending->dead, failed->queued, dead->queued, queued->cancelled).
C1_OnlyAllowedTransitions ==
    [][\A i \in Kept :
         message'[i].status # message[i].status =>
            <<message[i].status, message'[i].status>> \in AllowedTransitions]_vars

\* C2: once cancelled has been written to a message's row, the worker starts
\* no SMTP send for that message.
C2_NoSendAfterCancel ==
    [][\A i \in MsgIds : Sends(i) => "cancelled" \notin written[i]]_vars

\* C3: while a submission still has attachments to record, its message is
\* neither in the batch the worker selected nor the message the worker is
\* sending.
C3_NoIncompleteDelivery ==
    \A r \in Reqs :
        req[r].op = "submit" =>
            /\ \A k \in 1..Len(batch) : batch[k].id # req[r].msg.id
            /\ wmsg.id # req[r].msg.id

\* C4: a submission answered 400 leaves no row behind: the validation errors
\* change neither table, and a submission rejected for an attachment has no
\* message row and no attachment row when it is answered.
C4_RejectedSubmitWritesNothing ==
    [][\A r \in Reqs :
         /\ (req[r].op = "submit" /\ resp'[r] = 400) =>
                /\ req[r].msg.id \notin DOMAIN message'
                /\ attachment'[req[r].msg.id] = 0
         /\ (req[r].op = "idle" /\ req'[r].op = "idle" /\ resp'[r] = 400) =>
                /\ message' = message
                /\ attachment' = attachment]_vars

\* C5: once sent has been written to a message's row, the row never goes
\* from sent to queued and the worker starts no further SMTP send for it.
C5_NoSendAfterSent ==
    [][\A i \in MsgIds :
         /\ Sends(i) => "sent" \notin written[i]
         /\ (i \in Kept /\ message[i].status = "sent") =>
                message'[i].status # "queued"]_vars

\* C6: whenever retry, cancel, the worker's pick-up or the worker's result
\* write updates a row, the row's status, retries_remaining, last_error,
\* next_retry_at and sent_at are still what the writer read (no lost update).
C6_NoLostUpdate ==
    [][/\ \A r \in Reqs : ReqWrites(r) => RowAsRead(req[r].msg)
       /\ WorkerPicksUp => RowAsRead(Head(batch))
       /\ WorkerWritesResult => RowAsRead(wmsg)]_vars

\* C7: when the k-th send attempt of a message fails and retries remain, the
\* next_retry_at written is min(retry_max, retry_base * 2^(k-1)) seconds after
\* the failure (120 s after the first, 240 s after the second).
C7_BackoffOfKthFailure ==
    [][\A i \in Kept :
         (WorkerWritesResult /\ wmsg.id = i /\ message'[i].status = "failed") =>
            message'[i].next_retry_at =
                Some(wnow + Min(QUEUE_RETRY_MAX_SECONDS,
                                QUEUE_RETRY_BASE_SECONDS * Pow2(smtp_attempts[i] - 1)))]_vars

\* C8: with a relay that accepts nothing and no retry, a message gets exactly
\* queue_max_retries send attempts: never more, and a dead message has had
\* exactly that many and has retries_remaining = 0.
C8_ExactlyMaxRetriesAttempts ==
    \A i \in DOMAIN message :
        (smtp_accepted[i] = 0 /\ "queued" \notin written[i]) =>
            /\ smtp_attempts[i] <= max_retries
            /\ message[i].status = "dead" =>
                  /\ smtp_attempts[i] = max_retries
                  /\ message[i].retries_remaining = 0

\* C9: the row a submit creates is queued, holds retries_remaining =
\* queue_max_retries and created_at = updated_at, and has no next_retry_at,
\* last_error or sent_at.
C9_CreatedRow ==
    [][\A i \in DOMAIN message' \ DOMAIN message :
         /\ message'[i].status = "queued"
         /\ message'[i].retries_remaining = max_retries
         /\ message'[i].created_at = message'[i].updated_at
         /\ message'[i].next_retry_at = NULL
         /\ message'[i].last_error = NULL
         /\ message'[i].sent_at = NULL]_vars

\* C10: a retry of a failed or dead message leaves it queued with
\* retries_remaining = queue_max_retries and no next_retry_at; a retry
\* answered 400 or 404 changes nothing.
C10_Retry ==
    [][/\ \A r \in Reqs :
            /\ (req[r].op = "retry" /\ ReqWrites(r) /\ req[r].msg.id \in Kept) =>
                   /\ message'[req[r].msg.id].status = "queued"
                   /\ message'[req[r].msg.id].retries_remaining = max_retries
                   /\ message'[req[r].msg.id].next_retry_at = NULL
            /\ (req[r].op = "idle" /\ resp'[r] \in {400, 404}) =>
                   message' = message
       /\ \A i \in Kept :
            (message[i].status \in {"failed", "dead"} /\ message'[i].status = "queued") =>
                /\ message'[i].retries_remaining = max_retries
                /\ message'[i].next_retry_at = NULL]_vars

C12_CancelledOnlyFromQueued ==
    [][\A i \in Kept :
         (message'[i].status = "cancelled" /\ message[i].status # "cancelled") =>
            message[i].status = "queued"]_vars

\* C13: only a retry stores a larger retries_remaining than the row held:
\* no cancel and no write of the worker does.
C13_RetriesOnlyGrowByRetry ==
    [][\A i \in Kept :
         message'[i].retries_remaining > message[i].retries_remaining =>
            \E r \in Reqs : req[r].op = "retry" /\ ReqWrites(r)]_vars

\* C14: a dead row has retries_remaining = 0 and a last_error; the worker's
\* result write stores dead exactly when the send failed and the decrement
\* brought retries_remaining to 0.
C14_Dead ==
    [][/\ \A i \in DOMAIN message' :
            message'[i].status = "dead" =>
               /\ message'[i].retries_remaining = 0
               /\ message'[i].last_error # NULL
       /\ \A i \in Kept :
            (WorkerWritesResult /\ wmsg.id = i) =>
               (message'[i].status = "dead" <=>
                    (~send_ok /\ wmsg.retries_remaining - 1 = 0))]_vars

\* C15: a failed row with retries_remaining > 0 has a next_retry_at, and the
\* next_retry_at the worker writes with failed is strictly later than the
\* time the worker read for that write.
C15_FailedHasFutureRetry ==
    [][/\ \A i \in DOMAIN message' :
            (message'[i].status = "failed" /\ message'[i].retries_remaining > 0) =>
               message'[i].next_retry_at # NULL
       /\ \A i \in Kept :
            (WorkerWritesResult /\ wmsg.id = i /\ message'[i].status = "failed") =>
               /\ message'[i].next_retry_at # NULL
               /\ Val(message'[i].next_retry_at) > wnow]_vars

\* A failed send has been recorded with retries left.
C15_FailedRow ==
    \E i \in DOMAIN message :
        /\ message[i].status = "failed"
        /\ message[i].retries_remaining > 0
        /\ smtp_attempts[i] > smtp_accepted[i]

\* C16: a sent row has a sent_at with created_at <= sent_at <= updated_at.
C16_SentAt ==
    \A i \in DOMAIN message :
        message[i].status = "sent" =>
            /\ message[i].sent_at # NULL
            /\ message[i].created_at <= Val(message[i].sent_at)
            /\ Val(message[i].sent_at) <= message[i].updated_at

\* The relay accepted a message and the worker recorded it as sent, after the
\* clock had moved on since the submission.
C16_SentRow ==
    \E i \in DOMAIN message :
        /\ message[i].status = "sent"
        /\ smtp_accepted[i] > 0
        /\ message[i].updated_at > message[i].created_at

\* C17: a row with a next_retry_at is failed with retries_remaining > 0;
\* queued, sending, sent, dead and cancelled rows have none.
C17_NextRetryOnlyWhenFailed ==
    \A i \in DOMAIN message :
        message[i].next_retry_at # NULL =>
            /\ message[i].status = "failed"
            /\ message[i].retries_remaining > 0

\* A row that was failed, with a retry scheduled, is queued again.
C17_RequeuedRow ==
    \E i \in DOMAIN message :
        /\ message[i].status = "queued"
        /\ "failed" \in written[i]
        /\ "queued" \in written[i]

\* C18: retries_remaining of every row is >= 0, whatever queue.max_retries
\* (>= 0) is configured.
C18_RetriesNonNegative ==
    \A i \in DOMAIN message : message[i].retries_remaining >= 0

\* C19: no write stores an updated_at earlier than the one the row holds.
C19_UpdatedAtMonotonic ==
    [][\A i \in Kept : message'[i].updated_at >= message[i].updated_at]_vars

\* A row the worker may attempt at time now: queued, or failed with its
\* next_retry_at reached.
Due(row, now) ==
    \/ row.status = "queued"
    \/ /\ row.status = "failed"
       /\ row.next_retry_at # NULL
       /\ Val(row.next_retry_at) <= now

BatchIds(b) == {b[k].id : k \in 1..Len(b)}

\* C20: the batch a poll reads has at most batch_size rows, each a stored
\* row that is queued or failed and due, no row twice, in ascending
\* created_at order, and no due row left out is older than a row of the
\* batch (none is left out while the batch is short); the worker picks up
\* no failed message whose next_retry_at is still ahead.
C20_PendingBatch ==
    [][/\ (wpc = "idle" /\ wpc' # "idle") =>
            /\ Len(batch') <= batch_size
            /\ \A k \in 1..Len(batch') :
                  /\ batch'[k].id \in DOMAIN message
                  /\ batch'[k] = message[batch'[k].id]
                  /\ Due(batch'[k], clock)
            /\ \A j, k \in 1..Len(batch') :
                  j < k => /\ batch'[j].id # batch'[k].id
                           /\ batch'[j].created_at <= batch'[k].created_at
            /\ \A i \in DOMAIN message \ BatchIds(batch') :
                  Due(message[i], clock) =>
                     /\ Len(batch') = batch_size
                     /\ \A k \in 1..Len(batch') :
                           batch'[k].created_at <= message[i].created_at
       /\ WorkerPicksUp =>
            /\ Due(Head(batch), clock)
            /\ Head(batch).id \in DOMAIN message =>
                   (message[Head(batch).id].status = "failed" =>
                        Due(message[Head(batch).id], clock))]_vars

\* A poll returned a full batch and left a due row behind, over a table that
\* also holds a failed row whose retry is not due yet.
C20_FullBatch ==
    /\ wpc = "pickup"
    /\ Len(batch) = batch_size
    /\ \E i \in DOMAIN message \ BatchIds(batch) : Due(message[i], clock)
    /\ \E i \in DOMAIN message :
          /\ message[i].status = "failed"
          /\ Val(message[i].next_retry_at) > clock

\* The worker's purge step.
WorkerPurges == wpc = "purge" /\ wpc' = "idle"

C22_PurgeIdempotent ==
    [][WorkerPurges =>
            /\ PurgeOld(message', clock', RetentionSeconds) = message'
            /\ PurgeCount(message', clock', RetentionSeconds) = 0
      ]_vars

\* The worker is about to purge a table from which a purge has already
\* deleted rows.
C22_SecondPurgeDue ==
    /\ wpc = "purge"
    /\ Cardinality(DOMAIN message) < next_id

\* C28: once the shutdown signal has been received the worker picks up no
\* further message (no row is written as sending).
C28_NoPickUpAfterSignal ==
    [][~running => ~WorkerPicksUp]_vars

\* C29: whatever exception the handling of a message raises, the worker is
\* still in its loop afterwards: it stops only once the shutdown signal has
\* been received.
C29_WorkerStopsOnlyOnSignal ==
    [][wpc' = "stopped" => ~running]_vars

\* The worker is sending a message although an earlier message it had
\* picked up was left in sending by a status write that raised.
C29_GoesOnAfterException ==
    /\ wpc = "send"
    /\ running
    /\ \E i \in DOMAIN message :
        /\ i # wmsg.id
        /\ "sending" \in written[i]
        /\ message[i].status = "sending"

\* C30: the write that ends a send attempt marks the row sent, with
\* retries_remaining as it was, when the send returned, and failed or dead
\* with last_error set when the send raised.
C30_SentIffSendReturned ==
    [][\A i \in Kept :
          (wpc \in {"result", "except"} /\ wmsg.id = i /\ message'[i] # message[i]) =>
              IF send_ok
              THEN /\ message'[i].status = "sent"
                   /\ message'[i].retries_remaining = message[i].retries_remaining
              ELSE /\ message'[i].status \in {"failed", "dead"}
                   /\ message'[i].last_error # NULL
      ]_vars

\* The audit rows written for submissions.
Submitted(log) == {k \in 1..Len(log) : log[k].action = "message_submitted"}

\* C26: a request that is answered 200 or 201 appends exactly one audit row,
\* a request that is rejected (400, 404) appends none, no other step writes
\* an audit row, and once no submission is in progress there is one
\* message_submitted row for every message row that was ever created.
C26_OneAuditRowPerMutation ==
    [][/\ \A r \in Reqs :
            resp'[r] \in {200, 201} => Len(audit_log') = Len(audit_log) + 1
       /\ (\A r \in Reqs : resp'[r] \notin {200, 201}) => audit_log' = audit_log
       /\ (\A r \in Reqs : req'[r].op # "submit") =>
            Cardinality(Submitted(audit_log')) = next_id'
      ]_vars

\* C27: the timestamps of the audit rows never decrease in insertion order.
C27_AuditTimestampsOrdered ==
    \A j, k \in 1..Len(audit_log) :
        j < k => audit_log[j].timestamp <= audit_log[k].timestamp

\* C25: a request without a key, with an unknown key or with a disabled key
\* is answered 401 and changes no table; a key is accepted exactly when a row
\* holds it and is enabled (as ApiKey.verify's SELECT finds it); the
\* verification of an accepted key writes the time of the verification to
\* that key's last_used_at.
C25_ApiKeyRequired ==
    [][\A r \in Reqs :
        /\ \A raw \in RawKeys :
             ApiVerifyRead(r, raw) =>
                /\ resp'[r] = 401 <=>
                     ~\E k \in DOMAIN api_key :
                         raw # 0 /\ api_key[k].key = raw /\ api_key[k].enabled
                /\ resp'[r] # 401 => auth'[r].pc = "verify"
        /\ resp'[r] = 401 =>
             UNCHANGED <<message, attachment, attachment_row, audit_log, api_key,
                         auth>>
        /\ (auth[r].pc = "verify" /\ auth'[r].pc = "handler") =>
             \A k \in DOMAIN api_key :
                 api_key'[k].last_used_at =
                     IF k = auth[r].key THEN Some(auth[r].now)
                     ELSE api_key[k].last_used_at
      ]_vars

\* A key that was accepted (its last_used_at is set) is now disabled, and a
\* request has just been answered 401.
C25_RejectedAfterDisable ==
    \E r \in Reqs, k \in DOMAIN api_key :
        /\ resp[r] = 401
        /\ api_key[k].last_used_at # NULL
        /\ ~api_key[k].enabled

C24_ReferencedBlobComplete ==
    \A k \in 1..Len(attachment_row) :
        /\ attachment_row[k].disk_path \in DOMAIN blob_file
        /\ blob_file[attachment_row[k].disk_path].length = attachment_row[k].size_bytes
        /\ FileDigest(blob_file[attachment_row[k].disk_path]) = attachment_row[k].sha256

----------------------------------------------------------------------------
(* The web process: the payload from POST /messages to GET /messages/<uuid> *)

\* Strings are sequences of characters; addresses, subjects and application
\* names are atoms.
Chars == {" ", "a"}
Strings == UNION {[1..n -> Chars] : n \in 0..MaxStr}
Addresses == {"a@x", "b@x"}
Lists == UNION {[1..n -> Addresses] : n \in 0..MaxList}

\* str.strip(): leading and trailing whitespace removed.
RECURSIVE LStrip(_)
LStrip(s) == IF s # <<>> /\ Head(s) = " " THEN LStrip(Tail(s)) ELSE s

RECURSIVE RStrip(_)
RStrip(s) ==
    IF s # <<>> /\ s[Len(s)] = " " THEN RStrip(SubSeq(s, 1, Len(s) - 1)) ELSE s

\* str.lstrip() in place of str.strip().
Strip_LeftOnly(s) == LStrip(s)

Strip(s) == RStrip(LStrip(s))

\* JSON text, token by token.
Tok(t, v) == [t |-> t, v |-> v]

\* json.dumps of a list of strings: [ "s1" , "s2" ... ]
RECURSIVE JsonItems(_)
JsonItems(l) ==
    IF l = <<>> THEN <<>>
    ELSE IF Len(l) = 1 THEN <<Tok("str", l[1])>>
    ELSE <<Tok("str", l[1]), Tok(",", "")>> \o JsonItems(Tail(l))

JsonDumps(l) == <<Tok("[", "")>> \o JsonItems(l) \o <<Tok("]", "")>>

\* json.loads: the list a text denotes; any other text raises JSONDecodeError.
JsonLoads(text) ==
    LET n == Len(text)
        inner == SubSeq(text, 2, n - 1)
        wellFormed ==
            /\ n >= 2
            /\ text[1].t = "["
            /\ text[n].t = "]"
            /\ \/ inner = <<>>
               \/ /\ Len(inner) % 2 = 1
                  /\ \A k \in 1..Len(inner) :
                        inner[k].t = IF k % 2 = 1 THEN "str" ELSE ","
    IN IF wellFormed
       THEN [ok |-> TRUE,
             value |-> [k \in 1..((Len(inner) + 1) \div 2) |-> inner[2 * k - 1].v]]
       ELSE [ok |-> FALSE, value |-> <<>>]

\* The JSON bodies a client posts: from_address (absent: ""), to (absent or
\* null: the empty list; to_is_list is false for a value that is no list), cc
\* and bcc (absent or null: the empty list), subject, body_type, source_app
\* (absent: null); no attachments.
Subjects == {"", "hi"}
BodyTypes == {"plain", "html", "markdown", "rtf"}
SourceApps == {NULL, Some("app")}
Payloads ==
    [from_address : Strings, to : Lists, to_is_list : BOOLEAN, cc : Lists,
     bcc : Lists, subject : Subjects, body_type : BodyTypes,
     source_app : SourceApps]

\* submit_message, the validation.
ValidPayload(P) ==
    /\ Strip(P.from_address) # <<>>
    /\ P.to # <<>> /\ P.to_is_list
    /\ P.body_type \in {"plain", "html", "markdown"}

\* The payload columns Message.create inserts for the arguments
\* submit_message passes: from_address stripped, to as JSON text, cc and bcc
\* as JSON text or NULL when empty.
Columns(P) ==
    [from_address |-> Strip(P.from_address),
     to_recipients |-> JsonDumps(P.to),
     cc_recipients |-> IF P.cc # <<>> THEN JsonDumps(P.cc) ELSE NULL,
     bcc_recipients |-> IF P.bcc # <<>> THEN JsonDumps(P.bcc) ELSE NULL,
     subject |-> P.subject,
     body_type |-> P.body_type,
     source_app |-> P.source_app]

\* Message.to_list
ToList(raw) ==
    LET parsed == JsonLoads(raw)
    IN IF parsed.ok THEN parsed.value
       ELSE IF raw # <<>> THEN <<raw>> ELSE <<>>

\* Message.cc_list / Message.bcc_list
CcList(raw) ==
    IF raw = NULL THEN <<>>
    ELSE LET parsed == JsonLoads(raw)
         IN IF parsed.ok THEN parsed.value ELSE <<raw>>

\* _message_to_dict (the fields of the payload, uuid and status).
MessageToDict(row, col) ==
    [uuid |-> row.id,
     status |-> row.status,
     from_address |-> col.from_address,
     to |-> ToList(col.to_recipients),
     cc |-> CcList(col.cc_recipients),
     bcc |-> CcList(col.bcc_recipients),
     subject |-> col.subject,
     body_type |-> col.body_type,
     source_app |-> col.source_app]

\* submit_message with a body without attachments: 400 from the validation,
\* else Message.create, the audit row and 201 with the uuid.
SubmitPayload(r) ==
    /\ req[r].op = "idle"
    /\ next_id < MaxMsgs
    /\ \E P \in Payloads :
        IF ~ValidPayload(P)
        THEN /\ resp' = Answer(r, 400)
             /\ UNCHANGED <<message, next_id, column, audit_log, payload>>
        ELSE /\ next_id' = next_id + 1
             /\ message' = Create(message, next_id + 1, CREATE_MAX_RETRIES, clock)
             /\ column' = [i \in DOMAIN column \cup {next_id + 1} |->
                             IF i = next_id + 1 THEN Columns(P) ELSE column[i]]
             /\ audit_log' = AuditLog(audit_log, clock, "message_submitted",
                                      next_id + 1)
             /\ payload' = [uuid |-> next_id + 1, body |-> P]
             /\ resp' = Answer(r, 201)
    /\ UNCHANGED <<configVars, auxVars, reply, stored_rows, listing,
                   clock, ticks, attachment, req, workerVars, smtpVars, written>>

\* get_message: 404 for an unknown uuid, else the row as _message_to_dict
\* renders it.
GetMessage(r, u) ==
    /\ req[r].op = "idle"
    /\ IF u \in DOMAIN message /\ u \in DOMAIN column
       THEN /\ reply' = [code |-> 200, body |-> MessageToDict(message[u], column[u])]
            /\ resp' = Answer(r, 200)
       ELSE /\ reply' = [code |-> 404]
            /\ resp' = Answer(r, 404)
    /\ UNCHANGED <<configVars, payload, column, stored_rows, listing, ticks,
                   message, next_id, attachment, req, smtpVars, written,
                   workerVars, clock, running, webVars>>

NextRoundTrip ==
    \/ \E r \in Reqs : SubmitPayload(r)
    \/ \E r \in Reqs, u \in MsgIds : GetMessage(r, u)

SpecRoundTrip == Init /\ [][NextRoundTrip]_vars

----------------------------------------------------------------------------
(* The web process: GET /messages *)

\* The text of an integer in the query string: a sign and digits.
IntTexts(magnitudes) == [neg : BOOLEAN, abs : magnitudes]

\* int(text)
ParseInt(text) == IF text.neg THEN 0 - text.abs ELSE text.abs

\* The limit and offset parameters a client sends (NULL: absent).
LimitParams ==
    {NULL} \cup {Some(t) : t \in IntTexts({0, 1, LIST_LIMIT_DEFAULT,
                                          LIST_LIMIT_DEFAULT + 1,
                                          LIST_LIMIT_CAP, LIST_LIMIT_CAP + 1})}
OffsetParams == {NULL} \cup {Some(t) : t \in IntTexts(0..MaxOffset)}

\* limit = min(int(request.args.get("limit", 50)), 200)
LimitArg(param) ==
    Min(IF param = NULL THEN LIST_LIMIT_DEFAULT ELSE ParseInt(Val(param)),
        LIST_LIMIT_CAP)

\* offset = int(request.args.get("offset", 0))
OffsetArg(param) == IF param = NULL THEN 0 ELSE ParseInt(Val(param))

\* Message.list_messages: the number of rows SELECT ... LIMIT ? OFFSET ?
\* returns out of n matching rows.  SQLite skips no row for a negative
\* OFFSET and puts no upper bound on the rows for a negative LIMIT.
ListedRows(n, limit, offset) ==
    LET rest == n - (IF offset < 0 THEN 0 ELSE Min(offset, n))
    IN IF limit < 0 THEN rest ELSE Min(limit, rest)

\* list_messages: the parameters are parsed, the rows selected and answered
\* with total, limit and offset.
ListMessages(r) ==
    /\ req[r].op = "idle"
    /\ \E lim \in LimitParams, off \in OffsetParams :
         listing' = [code |-> 200,
                     limit_param |-> lim,
                     limit |-> LimitArg(lim),
                     offset |-> OffsetArg(off),
                     total |-> stored_rows,
                     messages |-> ListedRows(stored_rows, LimitArg(lim),
                                             OffsetArg(off))]
    /\ resp' = Answer(r, 200)
    /\ UNCHANGED <<configVars, payload, column, reply, stored_rows, ticks,
                   message, next_id, attachment, req, smtpVars, written,
                   workerVars, clock, running, webVars>>

\* A message table of any size up to MaxStored (its rows stand for
\* themselves: a list query counts them), everything else as installed.
InitList ==
    /\ max_retries \in MaxRetriesChoices
    /\ batch_size = QUEUE_BATCH_SIZE
    /\ clock = 0
    /\ ticks = 0
    /\ message = <<>>
    /\ next_id = 0
    /\ attachment = [i \in MsgIds |-> 0]
    /\ req = [r \in Reqs |-> Idle]
    /\ resp = NoResp
    /\ wpc = "idle"
    /\ batch = <<>>
    /\ wmsg = NoMsg
    /\ wnow = 0
    /\ send_ok = FALSE
    /\ smtp_attempts = [i \in MsgIds |-> 0]
    /\ smtp_accepted = [i \in MsgIds |-> 0]
    /\ written = [i \in MsgIds |-> {}]
    /\ AuxInit
    /\ column = <<>>
    /\ stored_rows \in 0..MaxStored

NextList == \E r \in Reqs : ListMessages(r)

SpecList == InitList /\ [][NextList]_vars

----------------------------------------------------------------------------
(* Every writer of the message table over a stored table *)

\* The payload a stored row was submitted with.
StoredPayload(id) ==
    [from_address |-> <<"a">>, to |-> [k \in 1..id |-> "a@x"],
     to_is_list |-> TRUE, cc |-> <<"b@x">>, bcc |-> <<>>, subject |-> "hi",
     body_type |-> "plain", source_app |-> NULL]

\* The tables of up to MaxPurgeRows rows written at time 0: the newest row
\* in any status, the rows before it sent or cancelled.
OpsTables ==
    UNION {{db \in [1..n -> {StoredRow(i, st, 0, 0) : i \in 1..n, st \in Statuses}] :
                /\ \A i \in 1..n : db[i].id = i
                /\ \A i \in 1..(n - 1) : db[i].status \in {"sent", "cancelled"}} :
           n \in 0..MaxPurgeRows}

\* Such a table with the payload columns of its rows, past the retention of
\* the rows, and the system idle.
InitOps ==
    /\ max_retries = CREATE_MAX_RETRIES
    /\ batch_size = QUEUE_BATCH_SIZE
    /\ clock = RetentionSeconds + 1
    /\ ticks = 0
    /\ message \in OpsTables
    /\ next_id = Len(message)
    /\ attachment = [i \in RowIds |-> 0]
    /\ req = [r \in Reqs |-> Idle]
    /\ resp = NoResp
    /\ wpc = "idle"
    /\ batch = <<>>
    /\ wmsg = NoMsg
    /\ wnow = 0
    /\ send_ok = FALSE
    /\ smtp_attempts = [i \in RowIds |-> 0]
    /\ smtp_accepted = [i \in RowIds |-> 0]
    /\ written = [i \in RowIds |-> {}]
    /\ AuxInit
    /\ column = [i \in DOMAIN message |-> Columns(StoredPayload(i))]
    /\ stored_rows = 0

\* The worker with its database errors, the retry and cancel handlers of the
\* web process and the client library's retry and cancel.
NextOps ==
    \/ WorkerPoll
    \/ WorkerPickUp
    \/ WorkerSend
    \/ WorkerResult
    \/ WorkerPurge
    \/ WorkerPickUpRaises
    \/ WorkerSentWriteRaises
    \/ WorkerExcept
    \/ WorkerFailureWriteRaises
    \/ \E r \in Reqs, u \in RowIds : ReqRetryRead(r, u)
    \/ \E r \in Reqs : ReqRetryWrite(r)
    \/ \E r \in Reqs, u \in RowIds : ReqCancelRead(r, u)
    \/ \E r \in Reqs : ReqCancelWrite(r)
    \/ \E u \in RowIds : LocalRetry(u)
    \/ \E u \in RowIds : LocalCancel(u)

SpecOps == InitOps /\ [][NextOps]_vars

----------------------------------------------------------------------------
(* The worker running for ever *)

\* Time passes while a failed row waits for its next_retry_at.
TickDue ==
    /\ \E i \in DOMAIN message :
          /\ message[i].status = "failed"
          /\ message[i].next_retry_at # NULL
          /\ Val(message[i].next_retry_at) > clock
    /\ \E d \in TickSteps : clock' = clock + d
    /\ ticks' = ticks + 1
    /\ resp' = NoResp
    /\ UNCHANGED <<configVars, readVars, auxVars, audit_log,
                   message, next_id, attachment, req, workerVars,
                   smtpVars, written>>

\* send_message(message): the call terminates, with the mail accepted or
\* with an exception.  The number of calls is bounded by the retries the row
\* holds.
WorkerSendReturns ==
    /\ wpc = "send"
    /\ \E ok \in BOOLEAN :
        /\ send_ok' = ok
        /\ smtp_accepted' = [smtp_accepted EXCEPT ![wmsg.id] = IF ok THEN @ + 1 ELSE @]
    /\ smtp_attempts' = [smtp_attempts EXCEPT ![wmsg.id] = @ + 1]
    /\ wnow' = clock
    /\ wpc' = "result"
    /\ resp' = NoResp
    /\ UNCHANGED <<configVars, readVars, auxVars, audit_log,
                   clock, ticks, message, next_id, attachment, req,
                   batch, wmsg, written>>

\* run(): the loop of the worker process, poll after poll.
WorkerLoop ==
    \/ WorkerPoll
    \/ WorkerPickUp
    \/ WorkerSendReturns
    \/ WorkerResult
    \/ WorkerPurge

\* The web process without retry requests, the worker and the clock.
NextLive ==
    \/ TickDue
    \/ \E r \in Reqs : ReqSubmit(r)
    \/ \E r \in Reqs : ReqAttach(r)
    \/ \E r \in Reqs, u \in MsgIds : ReqCancelRead(r, u)
    \/ \E r \in Reqs : ReqCancelWrite(r)
    \/ WorkerPoll
    \/ WorkerPickUp
    \/ WorkerSendReturns
    \/ WorkerResult
    \/ WorkerPurge

\* The worker process is never starved (run() sleeps poll_interval and polls
\* again) and time does not stop.
SpecLive ==
    /\ Init
    /\ [][NextLive]_vars
    /\ WF_vars(WorkerLoop)
    /\ WF_vars(TickDue)

----------------------------------------------------------------------------
(* Properties: rows left in sending *)

\* Row i is in sending and the worker is not between its pick-up and its
\* result write.
Unattended(i) ==
    /\ i \in DOMAIN message
    /\ message[i].status = "sending"
    /\ wmsg.id # i

\* C31: a row found in status sending that the worker is not handling (left
\* behind by an earlier run, or by a result write that raised) is never
\* selected into a batch, never sent again and never written by the worker,
\* in any step the worker takes on its own: no poll, pick-up, result write or
\* purge touches it, from the first poll after startup on.
C31_SendingNeverRecovered ==
    [][\A i \in RowIds :
          Unattended(i) =>
            /\ i \in DOMAIN message'
            /\ message'[i] = message[i]
            /\ ~Sends(i)
            /\ i \notin BatchIds(batch')]_vars

\* A row is still in sending, unattended, after the worker went through a
\* whole batch of other rows and wrote a result for one of them.
C31_SendingLeftBehind ==
    /\ wpc = "purge"
    /\ \E i \in RowIds : Unattended(i)
    /\ \E j \in RowIds : written[j] \cap {"sent", "failed", "dead"} # {}

\* Row i has reached a final status (or was purged after it).
Settled(i) ==
    i \in DOMAIN message => message[i].status \in {"sent", "dead", "cancelled"}

\* C32: with a worker that keeps polling, advancing time, send calls that
\* terminate and no retry request, every submitted message eventually is
\* sent, dead or cancelled; no message gets more than queue_max_retries send
\* attempts, and a sent or dead message has had at least one.
C32_EveryMessageSettles ==
    /\ \A i \in MsgIds : (i \in DOMAIN message) ~> Settled(i)
    /\ [](\A i \in DOMAIN message :
            /\ smtp_attempts[i] <= max_retries
            /\ message[i].status \in {"sent", "dead"} => smtp_attempts[i] >= 1)

\* C38: a row that is in sending while the worker is not handling it is
\* changed by no step of the system (retry and cancel of the web process and
\* of the client library, polls, pick-ups, result writes, purges): it stays
\* as it is, in sending, for ever.
C38_UnattendedSendingNeverChanges ==
    [][\A i \in RowIds :
          Unattended(i) =>
            /\ i \in DOMAIN message'
            /\ message'[i] = message[i]]_vars


----------------------------------------------------------------------------
(* Properties: the payload round trip and the list limit *)

\* The GET just answered 200 for the uuid the last successful POST returned.
GotSubmitted ==
    /\ reply'.code = 200
    /\ reply' # reply
    /\ payload.uuid # 0
    /\ reply'.body.uuid = payload.uuid

\* t is s without its leading and trailing blanks.
Trimmed(s, t) ==
    /\ \E a, b \in 0..Len(s) :
          /\ a + Len(t) + b = Len(s)
          /\ \A k \in 1..Len(s) :
                s[k] = IF k > a /\ k <= a + Len(t) THEN t[k - a] ELSE " "
    /\ t # <<>> => t[1] # " " /\ t[Len(t)] # " "

\* The fields of the projection other than from_address equal those of P.
SameButFrom(d, P) ==
    /\ d.to = P.to
    /\ d.cc = P.cc
    /\ d.bcc = P.bcc
    /\ d.subject = P.subject
    /\ d.body_type = P.body_type
    /\ d.source_app = P.source_app
    /\ d.status = "queued"

\* C33 (as the code has it): a GET of the uuid a successful submit of P
\* returned, with nothing in between, answers to, cc, bcc, subject, body_type
\* and source_app equal to those of P, status queued, and from_address equal
\* to P's from_address without its leading and trailing whitespace.
C33_RoundTripTrimmed ==
    [][GotSubmitted =>
          /\ SameButFrom(reply'.body, payload.body)
          /\ Trimmed(payload.body.from_address, reply'.body.from_address)]_vars

\* C33 (as stated): the same GET answers from_address equal to that of P
\* as well.
C33_RoundTrip ==
    [][GotSubmitted =>
          /\ SameButFrom(reply'.body, payload.body)
          /\ reply'.body.from_address = payload.body.from_address]_vars

\* A GET answered the message of a payload with two cc recipients and a
\* from_address that carries whitespace around it.
C33_GotPaddedPayload ==
    /\ reply.code = 200
    /\ payload.uuid # 0
    /\ reply.body.uuid = payload.uuid
    /\ Len(payload.body.cc) = 2
    /\ payload.body.from_address # reply.body.from_address

\* C34: a list request answers at most 200 messages whatever integer the
\* limit parameter is (zero and negative ones too), and at most 50 when the
\* parameter is absent.
C34_ListAtMostCap ==
    listing.code = 200 =>
        /\ listing.messages <= LIST_LIMIT_CAP
        /\ listing.limit_param = NULL => listing.messages <= LIST_LIMIT_DEFAULT

----------------------------------------------------------------------------
(* Properties: what the writers of the message table leave alone *)

\* The rows a step changed.
ChangedRows ==
    {i \in DOMAIN message : i \in DOMAIN message' /\ message'[i] # message[i]}

\* C35: a step of the worker's pick-up and result writes, of a retry or of
\* a cancel (web process or client library) removes and adds no row, leaves
\* id, created_at and the payload columns (from_address, recipients,
\* subject, body_type, source_app) of every row as they were, and changes at
\* most the lifecycle columns of the one row it addresses.
C35_OnlyLifecycleColumns ==
    [][~WorkerPurges =>
          /\ DOMAIN message' = DOMAIN message
          /\ column' = column
          /\ \A i \in DOMAIN message :
                /\ message'[i].id = message[i].id
                /\ message'[i].created_at = message[i].created_at
          /\ WorkerPickUp => ChangedRows \subseteq {Head(batch).id}
          /\ (WorkerResult \/ WorkerExcept) => ChangedRows \subseteq {wmsg.id}
          /\ \A r \in Reqs :
                (ReqRetryWrite(r) \/ ReqCancelWrite(r)) =>
                    ChangedRows \subseteq {req[r].msg.id}
          /\ \A u \in RowIds :
                (LocalRetry(u) \/ LocalCancel(u)) => ChangedRows \subseteq {u}
          /\ Cardinality(ChangedRows) <= 1]_vars

\* Of two rows with their payload columns the first is as it was stored and
\* the second has been picked up, failed and been requeued since.
C35_OneRowWrittenBesideAnother ==
    /\ DOMAIN message = {1, 2}
    /\ DOMAIN column = {1, 2}
    /\ written[1] = {}
    /\ {"sending", "failed", "queued"} \subseteq written[2]

----------------------------------------------------------------------------
(* Properties: the backoff *)

\* The worker writes failed for the message i it holds, after a send that
\* raised.
WritesFailed(i) ==
    /\ WorkerWritesResult
    /\ ~send_ok
    /\ wmsg.id = i
    /\ i \in Kept
    /\ message'[i].status = "failed"

\* d = min(retry_max, retry_base * 2^e), for a negative e as well (the
\* power is then a fraction: d * 2^(-e) = retry_base).
IsBackoff(d, e) ==
    IF e >= 0
    THEN d = Min(QUEUE_RETRY_MAX_SECONDS, QUEUE_RETRY_BASE_SECONDS * Pow2(e))
    ELSE \/ d * Pow2(0 - e) = QUEUE_RETRY_BASE_SECONDS /\ d <= QUEUE_RETRY_MAX_SECONDS
         \/ /\ d = QUEUE_RETRY_MAX_SECONDS
            /\ QUEUE_RETRY_MAX_SECONDS * Pow2(0 - e) < QUEUE_RETRY_BASE_SECONDS

\* C36: when a send fails and retries are left, the worker stores
\* retries_remaining one below the value it held, the exception text as
\* last_error and next_retry_at = now + min(retry_max, retry_base *
\* 2^(max_retries - r)), max_retries being the configured queue_max_retries
\* and r the retries_remaining it stores.
C36_BackoffOfStoredRetries ==
    [][\A i \in MsgIds :
          WritesFailed(i) =>
            /\ message'[i].retries_remaining = wmsg.retries_remaining - 1
            /\ message'[i].retries_remaining > 0
            /\ message'[i].last_error = Some("error")
            /\ message'[i].next_retry_at # NULL
            /\ IsBackoff(Val(message'[i].next_retry_at) - wnow,
                         max_retries - message'[i].retries_remaining)]_vars

\* With queue_max_retries = 2 a first failure has been recorded: the row
\* holds 4 retries and a retry time 30 s (120 * 2^(2 - 4)) after the write.
C36_FailedBelowBudget ==
    \E i \in DOMAIN message :
        /\ max_retries = 2
        /\ message[i].status = "failed"
        /\ message[i].retries_remaining = CREATE_MAX_RETRIES - 1
        /\ message[i].next_retry_at = Some(message[i].updated_at + 30)

\* C37: the exponent max_retries - retries_remaining of a failure write is
\* never negative, and the delay it schedules is at least
\* min(retry_base, retry_max), whatever queue_max_retries is configured.
C37_ExponentNonNegative ==
    [][\A i \in MsgIds :
          WritesFailed(i) =>
            /\ max_retries - message'[i].retries_remaining >= 0
            /\ message'[i].next_retry_at # NULL
            /\ Val(message'[i].next_retry_at) - wnow >=
                   Min(QUEUE_RETRY_BASE_SECONDS, QUEUE_RETRY_MAX_SECONDS)]_vars

----------------------------------------------------------------------------
(* Properties: sent_at *)

\* C39: in every state a row has a sent_at exactly when its status is sent
\* (queued, sending, failed, dead and cancelled rows have none), and a step
\* gives a row a new sent_at only by writing the status sent, however the
\* worker, retries and cancels interleave.
C39_SentAtExactlyWhenSent ==
    /\ [](\A i \in DOMAIN message :
            message[i].sent_at # NULL <=> message[i].status = "sent")
    /\ [][\A i \in Kept :
            (message'[i].sent_at # message[i].sent_at /\ message'[i].sent_at # NULL)
                => message'[i].status = "sent"]_vars

\* A row the worker had written sent has been overwritten by a request that
\* read it earlier: it is cancelled or queued again, and holds no sent_at.
C39_SentOverwritten ==
    \E i \in DOMAIN message :
        /\ "sent" \in written[i]
        /\ message[i].status \in {"cancelled", "queued"}
        /\ message[i].sent_at = NULL

----------------------------------------------------------------------------
(* Properties: the client library's retry and cancel *)

\* C40: a cancel of the client library changes a row only if the row is
\* queued in the state it commits in, and then writes cancelled; a retry
\* only if the row is failed or dead, and then writes queued; for any other
\* status (a sending, sent, failed or dead the worker committed before) or
\* an unknown uuid the step changes nothing in the table.
C40_LocalChecksAtCommit ==
    [][\A u \in RowIds :
          /\ LocalCancel(u) =>
                IF u \in DOMAIN message /\ message[u].status = "queued"
                THEN /\ message'[u].status = "cancelled"
                     /\ ChangedRows = {u}
                ELSE message' = message
          /\ LocalRetry(u) =>
                IF u \in DOMAIN message /\ message[u].status \in {"failed", "dead"}
                THEN /\ message'[u].status = "queued"
                     /\ ChangedRows = {u}
                ELSE message' = message]_vars

\* The client library cancelled a row (no cancel of the web process was
\* audited for it) that the worker or a retry had written before.
C40_CancelledByLibrary ==
    \E i \in DOMAIN message :
        /\ message[i].status = "cancelled"
        /\ {"queued", "cancelled"} \subseteq written[i]
        /\ \A k \in 1..Len(audit_log) :
              ~(audit_log[k].action = "message_cancelled" /\ audit_log[k].target = i)
====
